---- MODULE Spec2Model ----
(***************************************************************************)
(* Model of the water-reach-tracer notebooks: the EPA WATERS snap / trace  *)
(* workflow of resources/epa_water_prototyping.ipynb, the feature layer   *)
(* upsert and the batch publish loop of 03_reach_layer_geometry.ipynb, and *)
(* the queue update cycle.                                                 *)
(***************************************************************************)
EXTENDS Integers, Sequences, FiniteSets, TLC

(* ------------------------------ bounds -------------------------------- *)

\* the mock trace service fails its first failN requests, failN \in 0..MaxFailN
MaxFailN == 10
\* rows of the access table handed to get_geometries_from_sdf_by_reach_id
MaxRows == 3
\* candidate flowlines listed in one snapping response
MaxCandidates == 2
\* flowlines listed in one trace response, and coordinates of one flowline
MaxSegs == 2
MaxSegLen == 2
\* features a collection already holds for one reach id before an upsert
MaxExisting == 2
\* reach ids in the batch loop's list, and messages waiting in the queue
MaxBatch == 3
MaxQueue == 2
\* rows of the CSV file handed to from_csv
MaxCsvRows == 2

(* ------------------------- program constants -------------------------- *)

\* while attempts < 10 and status_code != 200
MaxAttempts == 10
StatusOK == 200

(* ------------------------------ values -------------------------------- *)

\* abstract coordinates of flowline vertices
Coords == {"p", "q"}
\* reach ids used in the access table and as the reach_id argument
ReachIds == {1, 2}
\* a reach id as Python holds it: an int or its str form
PyInt(n) == [kind |-> "int", v |-> n]
PyStr(n) == [kind |-> "str", v |-> n]
\* str(reach_id): an int becomes its decimal string, a str stays itself
Str(x) == [kind |-> "str", v |-> x.v]

AccessTypes == {"putin", "takeout"}

\* HTTP statuses the trace service answers a request it serves with (its
\* failures carry status 500)
OkStatuses == {200, 201}
Is2xx(s) == s >= 200 /\ s < 300

SeqsUpTo(S, n) == UNION {[1..k -> S] : k \in 0..n}

\* a flowline's shape.coordinates, and the flowlines_traversed lists
Segments == SeqsUpTo(Coords, MaxSegLen)
FlowlineLists == SeqsUpTo(Segments, MaxSegs)

\* the body of a trace response, by what .json() and the subscripts make of it
Body(kind, segs) == [kind |-> kind, segs |-> segs]
NotJson == Body("not_json", <<>>)
OutputNull == Body("output_null", <<>>)
FlowNull == Body("flow_null", <<>>)
FlowList(segs) == Body("flow_list", segs)
AllBodies == {NotJson, OutputNull, FlowNull} \cup {FlowList(f) : f \in FlowlineLists}
\* the bodies the mock service of the workflow answers with
WorkflowBodies ==
    {NotJson, OutputNull, FlowNull, FlowList(<<>>),
     FlowList(<< <<"p", "q">> >>), FlowList(<< <<"p", "q">>, <<"q", "p">> >>)}

\* candidate flowlines of a snapping response
Candidates == {[comid |-> 1, fmeasure |-> 10], [comid |-> 2, fmeasure |-> 20]}
CandidateLists == UNION {[1..k -> Candidates] : k \in 1..MaxCandidates}
\* a snapping response: its HTTP status and its JSON, with candidates or in one of
\* the shapes without any
SnapFound(c) == [shape |-> "found", ary_flowlines |-> c, status |-> 200]
\* responses with a failure status: get_epa_point_indexing reads their JSON all the same
SnapFailures ==
    {[shape |-> "found", ary_flowlines |-> <<[comid |-> 1, fmeasure |-> 10]>>, status |-> 500],
     [shape |-> "output_null", ary_flowlines |-> <<>>, status |-> 500]}
SnapResponses ==
    {SnapFound(c) : c \in CandidateLists}
    \cup {[shape |-> "output_null", ary_flowlines |-> <<>>, status |-> 200],
          [shape |-> "flowlines_empty", ary_flowlines |-> <<>>, status |-> 200]}
    \cup SnapFailures

NoRow == [reach_id |-> PyStr(0), type |-> "none"]
Unset == [geometry |-> "unset", measure |-> 0, id |-> 0]
NoResp == [n |-> 0, status |-> 0, body |-> NotJson]
NoLine == [isNone |-> TRUE, paths |-> <<>>]

VARIABLES
    variant,        \* "function": get_geometries_from_sdf_by_reach_id; "cell": the snap and trace cell
    pc,             \* position in the running code
    outcome,        \* "running", "returned", or the exception raised
    sdf,            \* the access table: rows with reach_id and type
    reach_id,       \* the reach_id argument
    putin,          \* rows returned by get_putin_from_sdf / get_takeout_from_sdf
    takeout,
    rGlobal,        \* the kernel namespace's binding of the free name r
    failN,          \* mock trace service: fails the first failN requests
    okStatus,       \* ... then answers with this status
    okBody,         \* ... and this body
    failBody,       \* body of its failure responses
    snapLog,        \* snapping requests issued, with their responses
    epa_putin,      \* get_epa_snap_point results
    epa_takeout,
    attempts,       \* get_epa_trace_response locals
    status_code,
    resp,
    requests,       \* trace requests issued, with params and response status
    trace_ret,      \* "pending", "returned" or "raised": how get_epa_trace_response ended
    geom_dict,      \* the cell's / function's result dict
    op,             \* the publishing code that runs: "reach_update", "flush_publish",
                    \* "publish", or the "batch" / "queue" cell
    ppc,            \* its position
    layers,         \* the features of each remote collection
    layers0,        \* ... as they were when the upsert began
    nextOid,        \* the object id each collection gives its next feature
    upReach,        \* the reach id being published
    isFeature,      \* isinstance(update_feature, Feature)
    fs,             \* reach_update's queried feature set
    cur,            \* index of the collection the publisher is at
    pubLog,         \* edits applied to the collections, in order
    pubOutcome,     \* "running", "returned", or the exception raised
    lst_reach_id,   \* the batch loop's list of reach ids
    idx,            \* the batch loop's position in it
    queue,          \* the messages waiting in the update queue
    msg,            \* the message queue.get_messages(...)[0] returned
    steps,          \* the calls the cycle made, in order, with their reach id
    printed,        \* the reach ids printed as published / logged as updated
    editResults     \* the add results the feature service returned, per write

wfVars == <<variant, pc, outcome, sdf, reach_id, putin, takeout, rGlobal, failN,
            okStatus, okBody, failBody, snapLog, epa_putin, epa_takeout, attempts,
            status_code, resp, requests, trace_ret, geom_dict>>
pubVars == <<op, ppc, layers, layers0, nextOid, upReach, isFeature, fs, cur, pubLog, pubOutcome>>
cycVars == <<lst_reach_id, idx, queue, msg, steps, printed, editResults>>
vars == <<wfVars, pubVars, cycVars>>

(* ----------------------------- outcomes ------------------------------- *)

Running == [type |-> "running", msg |-> "", arg |-> ""]
Returned == [type |-> "returned", msg |-> "", arg |-> ""]
Raise(type, text, arg) == [type |-> type, msg |-> text, arg |-> arg]

(* ------------------- _get_access_from_sdf (pure) ---------------------- *)

\* sdf[(sdf.reach_id == reach_id) & (sdf.type == access_type)]
FilterAccess(table, rid, access_type) ==
    LET Match(row) == row.reach_id = rid /\ row.type = access_type
    IN SelectSeq(table, Match)

\* the same with len(access_sdf) >= 1 taken for len(access_sdf) == 1
get_access_from_sdf_first_of_many(table, rid_in, access_type) ==
    LET rid == Str(rid_in)
        access_sdf == FilterAccess(table, rid, access_type)
    IN IF Len(access_sdf) >= 1
       THEN [raised |-> FALSE, exc |-> Returned, row |-> access_sdf[1]]
       ELSE [raised |-> TRUE, row |-> NoRow,
             exc |-> Raise("TraceException", "does not have a {}", ToString(rid.v))]

\* the same without reach_id = str(reach_id)
get_access_from_sdf_no_str(table, rid_in, access_type) ==
    LET rid == rid_in
        access_sdf == FilterAccess(table, rid, access_type)
    IN IF access_type # "putin" /\ access_type # "takeout"
       THEN [raised |-> TRUE, row |-> NoRow,
             exc |-> Raise("TraceException", "access_type must be either putin or takeout", "")]
       ELSE IF rid.kind # "str"
       THEN [raised |-> TRUE, row |-> NoRow,
             exc |-> Raise("TraceException", "reach_id must be a string representation of an integer", "")]
       ELSE IF Len(access_sdf) = 1
       THEN [raised |-> FALSE, exc |-> Returned, row |-> access_sdf[1]]
       ELSE IF Len(access_sdf) > 1
       THEN [raised |-> TRUE, row |-> NoRow,
             exc |-> Raise("TraceException", "more than one {} exists", access_type)]
       ELSE [raised |-> TRUE, row |-> NoRow,
             exc |-> Raise("TraceException", "does not have a {}", ToString(rid.v))]

\* _get_access_from_sdf: the row, or the exception it raises
get_access_from_sdf(table, rid_in, access_type) ==
    LET rid == Str(rid_in)
        access_sdf == FilterAccess(table, rid, access_type)
    IN IF access_type # "putin" /\ access_type # "takeout"
       THEN [raised |-> TRUE, row |-> NoRow,
             exc |-> Raise("TraceException", "access_type must be either putin or takeout", "")]
       ELSE IF rid.kind # "str"
       THEN [raised |-> TRUE, row |-> NoRow,
             exc |-> Raise("TraceException", "reach_id must be a string representation of an integer", "")]
       ELSE IF Len(access_sdf) = 1
       THEN [raised |-> FALSE, exc |-> Returned, row |-> access_sdf[1]]
       ELSE IF Len(access_sdf) > 1
       THEN [raised |-> TRUE, row |-> NoRow,
             exc |-> Raise("TraceException", "more than one {} exists", access_type)]
       ELSE [raised |-> TRUE, row |-> NoRow,
             exc |-> Raise("TraceException", "does not have a {}", ToString(rid.v))]

(* ----------------------- get_epa_snap_point (pure) -------------------- *)

\* the same with the id taken from the last candidate listed
get_epa_snap_point_last_id(rjson) ==
    IF rjson.shape = "output_null"
    THEN [raised |-> TRUE, exc |-> Raise("TypeError", "'NoneType' object is not subscriptable", ""),
          point |-> Unset]
    ELSE IF Len(rjson.ary_flowlines) = 0
    THEN [raised |-> TRUE, exc |-> Raise("IndexError", "list index out of range", ""),
          point |-> Unset]
    ELSE [raised |-> FALSE, exc |-> Returned,
          point |-> [geometry |-> "end_point",
                     measure |-> rjson.ary_flowlines[1].fmeasure,
                     id |-> rjson.ary_flowlines[Len(rjson.ary_flowlines)].comid]]

\* get_epa_snap_point on the JSON of a snapping response: the subscripts raise
\* when output is null or ary_flowlines lists nothing
get_epa_snap_point(rjson) ==
    IF rjson.shape = "output_null"
    THEN [raised |-> TRUE, exc |-> Raise("TypeError", "'NoneType' object is not subscriptable", ""),
          point |-> Unset]
    ELSE IF Len(rjson.ary_flowlines) = 0
    THEN [raised |-> TRUE, exc |-> Raise("IndexError", "list index out of range", ""),
          point |-> Unset]
    ELSE [raised |-> FALSE, exc |-> Returned,
          point |-> [geometry |-> "end_point",
                     measure |-> rjson.ary_flowlines[1].fmeasure,
                     id |-> rjson.ary_flowlines[1].comid]]

\* truth value of a dict: it has a key
DictTruthy(d) == DOMAIN d # {}

(* ------------------- epa_trace_resp_to_esri_geom (pure) --------------- *)

RECURSIVE chain_reversed(_)
\* chaining that puts the later lists first
chain_reversed(lists) ==
    IF lists = <<>> THEN <<>> ELSE chain_reversed(Tail(lists)) \o Head(lists)

RECURSIVE chain_from_iterable(_)
\* list(itertools.chain.from_iterable(geom_lists))
chain_from_iterable(lists) ==
    IF lists = <<>> THEN <<>> ELSE Head(lists) \o chain_from_iterable(Tail(lists))

\* truth value of flowlines_traversed: neither None nor an empty list
FlowlinesTruthy(body) == body.kind = "flow_list" /\ body.segs # <<>>

\* the same with every flowline in a path of its own
epa_trace_resp_to_esri_geom_path_per_flowline(trace_response) ==
    LET body == trace_response.body
    IN IF body.kind = "not_json"
       THEN [raised |-> TRUE, exc |-> Raise("ValueError", "No JSON object could be decoded", ""),
             geom |-> NoLine]
       ELSE IF body.kind = "output_null"
       THEN [raised |-> TRUE, exc |-> Raise("TypeError", "'NoneType' object is not subscriptable", ""),
             geom |-> NoLine]
       ELSE IF FlowlinesTruthy(body)
       THEN [raised |-> FALSE, exc |-> Returned,
             geom |-> [isNone |-> FALSE, paths |-> body.segs]]
       ELSE [raised |-> FALSE, exc |-> Returned, geom |-> NoLine]

\* epa_trace_resp_to_esri_geom: a polyline, None, or the exception of .json() / the subscripts
epa_trace_resp_to_esri_geom(trace_response) ==
    LET body == trace_response.body
    IN IF body.kind = "not_json"
       THEN [raised |-> TRUE, exc |-> Raise("ValueError", "No JSON object could be decoded", ""),
             geom |-> NoLine]
       ELSE IF body.kind = "output_null"
       THEN [raised |-> TRUE, exc |-> Raise("TypeError", "'NoneType' object is not subscriptable", ""),
             geom |-> NoLine]
       ELSE IF FlowlinesTruthy(body)
       THEN [raised |-> FALSE, exc |-> Returned,
             geom |-> [isNone |-> FALSE, paths |-> << chain_from_iterable(body.segs) >>]]
       ELSE [raised |-> FALSE, exc |-> Returned, geom |-> NoLine]

(* ------------------------- the mock services -------------------------- *)

\* the n-th response of the trace service: failures first, then success
ServiceResponse(n) ==
    IF n <= failN
    THEN [n |-> n, status |-> 500, body |-> failBody]
    ELSE [n |-> n, status |-> okStatus, body |-> okBody]

\* the same with start and stop swapped
queryString_swapped(putin_point, takeout_point) ==
    [pNavigationType |-> "PP",
     pStartComID |-> takeout_point.id, pStartMeasure |-> takeout_point.measure,
     pStopComid |-> putin_point.id, pStopMeasure |-> putin_point.measure]

\* queryString of get_epa_trace_response
queryString(putin_point, takeout_point) ==
    [pNavigationType |-> "PP",
     pStartComID |-> putin_point.id, pStartMeasure |-> putin_point.measure,
     pStopComid |-> takeout_point.id, pStopMeasure |-> takeout_point.measure]

(* ------------------------ the remote collections --------------------- *)

\* the line, centroid and point feature layers, in the order the publisher takes them
LayerOrder == <<"line", "centroid", "points">>
LayerNames == {"line", "centroid", "points"}
Feature(oid, rid) == [oid |-> oid, reach_id |-> rid]
\* a collection holding c1 features of reach 1 and c2 of reach 2
Existing(c1, c2) ==
    {Feature(k, 1) : k \in 1..c1} \cup {Feature(MaxExisting + k, 2) : k \in 1..c2}
Collections == {Existing(c1, c2) : c1 \in 0..MaxExisting, c2 \in 0..MaxExisting}
NoFs == [features |-> <<>>]

\* no publishing code runs
PubIdle ==
    /\ op = "none"
    /\ ppc = "idle"
    /\ layers = [l \in LayerNames |-> {}]
    /\ layers0 = layers
    /\ nextOid = [l \in LayerNames |-> 2 * MaxExisting + 1]
    /\ upReach = 1
    /\ isFeature = TRUE
    /\ fs = NoFs
    /\ cur = 1
    /\ pubLog = <<>>
    /\ pubOutcome = Running

\* no update cycle runs
NoMsg == [content |-> "none"]
CycIdle ==
    /\ lst_reach_id = <<>>
    /\ idx = 0
    /\ queue = <<>>
    /\ msg = NoMsg
    /\ steps = <<>>
    /\ printed = <<>>
    /\ editResults = <<>>

(* ------------------------------- Init --------------------------------- *)

RowTypes == AccessTypes \cup {"intermediate"}
RowsOfKind(kind) == {[reach_id |-> [kind |-> kind, v |-> n], type |-> t] : n \in ReachIds, t \in RowTypes}
\* access tables: every row's reach_id has the column's dtype
Tables == UNION {SeqsUpTo(RowsOfKind(kind), MaxRows) : kind \in {"int", "str"}}
ReachIdArgs == {PyInt(n) : n \in ReachIds} \cup {PyStr(n) : n \in ReachIds}

\* the name r in the kernel's namespace: unbound (the recorded run), or left
\* bound to an earlier response by an earlier cell
Unbound == [bound |-> FALSE, status_code |-> 0]
RBindings == {Unbound, [bound |-> TRUE, status_code |-> 200], [bound |-> TRUE, status_code |-> 500]}

InitLocals ==
    /\ outcome = Running
    /\ putin = NoRow
    /\ takeout = NoRow
    /\ snapLog = <<>>
    /\ epa_putin = Unset
    /\ epa_takeout = Unset
    /\ attempts = 0
    /\ status_code = 0
    /\ resp = NoResp
    /\ requests = <<>>
    /\ trace_ret = "pending"
    /\ geom_dict = [putin_point |-> "None", takeout_point |-> "None", reach_line |-> NoLine]
    /\ PubIdle
    /\ CycIdle

\* a call of get_geometries_from_sdf_by_reach_id(sdf, reach_id)
InitFunction ==
    /\ variant = "function"
    /\ pc = "f_putin"
    /\ sdf \in Tables
    /\ reach_id \in ReachIdArgs
    /\ rGlobal = Unbound
    /\ failN = 0
    /\ okStatus = 200
    /\ okBody = FlowNull
    /\ failBody = NotJson
    /\ InitLocals

\* a run of the snap and trace cell
InitCell ==
    /\ variant = "cell"
    /\ pc = "c_snap_putin"
    /\ sdf = <<>>
    /\ reach_id = PyInt(1)
    /\ rGlobal \in RBindings
    /\ failN \in 0..MaxFailN
    /\ okStatus \in OkStatuses
    /\ okBody \in WorkflowBodies
    /\ failBody \in WorkflowBodies
    /\ InitLocals

Init == InitFunction \/ InitCell

(* ------------------ get_geometries_from_sdf_by_reach_id --------------- *)

Finish(exc) ==
    /\ outcome' = exc
    /\ pc' = "done"

\* putin = get_putin_from_sdf(sdf, reach_id)
GetPutin ==
    /\ pc = "f_putin"
    /\ LET r == get_access_from_sdf(sdf, reach_id, "putin")
       IN IF r.raised
          THEN Finish(r.exc) /\ UNCHANGED putin
          ELSE putin' = r.row /\ pc' = "f_takeout" /\ UNCHANGED outcome
    /\ UNCHANGED <<variant, sdf, reach_id, takeout, rGlobal, failN, okStatus, okBody,
                   failBody, snapLog, epa_putin, epa_takeout, attempts, status_code,
                   resp, requests, trace_ret, geom_dict>>
    /\ UNCHANGED pubVars
    /\ UNCHANGED cycVars

\* takeout = get_takeout_from_sdf(sdf, reach_id)
GetTakeout ==
    /\ pc = "f_takeout"
    /\ LET r == get_access_from_sdf(sdf, reach_id, "takeout")
       IN IF r.raised
          THEN Finish(r.exc) /\ UNCHANGED takeout
          ELSE takeout' = r.row /\ pc' = "f_check" /\ UNCHANGED outcome
    /\ UNCHANGED <<variant, sdf, reach_id, putin, rGlobal, failN, okStatus, okBody,
                   failBody, snapLog, epa_putin, epa_takeout, attempts, status_code,
                   resp, requests, trace_ret, geom_dict>>
    /\ UNCHANGED pubVars
    /\ UNCHANGED cycVars

\* if not epa_putin: the local epa_putin is read before line 178 assigns it
CheckBeforeSnap ==
    /\ pc = "f_check"
    /\ Finish(Raise("UnboundLocalError", "local variable '{}' referenced before assignment", "epa_putin"))
    /\ UNCHANGED <<variant, sdf, reach_id, putin, takeout, rGlobal, failN, okStatus, okBody,
                   failBody, snapLog, epa_putin, epa_takeout, attempts, status_code,
                   resp, requests, trace_ret, geom_dict>>
    /\ UNCHANGED pubVars
    /\ UNCHANGED cycVars

(* ----------------------- the snap and trace cell ---------------------- *)

\* epa_putin = get_epa_snap_point(putin_geom.x, putin_geom.y)
SnapPutin ==
    /\ pc = "c_snap_putin"
    /\ \E rjson \in SnapResponses :
         LET r == get_epa_snap_point(rjson)
         IN /\ snapLog' = Append(snapLog, [point |-> "putin", rjson |-> rjson])
            /\ IF r.raised
               THEN Finish(r.exc) /\ UNCHANGED epa_putin
               ELSE epa_putin' = r.point /\ pc' = "c_snap_takeout" /\ UNCHANGED outcome
    /\ UNCHANGED <<variant, sdf, reach_id, putin, takeout, rGlobal, failN, okStatus, okBody,
                   failBody, epa_takeout, attempts, status_code, resp, requests,
                   trace_ret, geom_dict>>
    /\ UNCHANGED pubVars
    /\ UNCHANGED cycVars

\* epa_takeout = get_epa_snap_point(takeout_geom.x, takeout_geom.y)
SnapTakeout ==
    /\ pc = "c_snap_takeout"
    /\ \E rjson \in SnapResponses :
         LET r == get_epa_snap_point(rjson)
         IN /\ snapLog' = Append(snapLog, [point |-> "takeout", rjson |-> rjson])
            /\ IF r.raised
               THEN Finish(r.exc) /\ UNCHANGED epa_takeout
               ELSE epa_takeout' = r.point /\ pc' = "c_check" /\ UNCHANGED outcome
    /\ UNCHANGED <<variant, sdf, reach_id, putin, takeout, rGlobal, failN, okStatus, okBody,
                   failBody, epa_putin, attempts, status_code, resp, requests,
                   trace_ret, geom_dict>>
    /\ UNCHANGED pubVars
    /\ UNCHANGED cycVars

\* the two "if not epa_...: raise TraceException" tests, the two geom_dict
\* assignments, and the entry of get_epa_trace_response (attempts = 0, status_code = 0)
CheckSnapped ==
    /\ pc = "c_check"
    /\ IF ~DictTruthy(epa_putin)
       THEN Finish(Raise("TraceException", "putin cannot be snapped to a hydroline", ""))
            /\ UNCHANGED <<geom_dict, attempts, status_code>>
       ELSE IF ~DictTruthy(epa_takeout)
       THEN Finish(Raise("TraceException", "takeout cannot be snapped to a hydroline", ""))
            /\ UNCHANGED <<geom_dict, attempts, status_code>>
       ELSE /\ geom_dict' = [geom_dict EXCEPT !.putin_point = epa_putin.geometry,
                                              !.takeout_point = epa_takeout.geometry]
            /\ attempts' = 0
            /\ status_code' = 0
            /\ pc' = "c_trace"
            /\ UNCHANGED outcome
    /\ UNCHANGED <<variant, sdf, reach_id, putin, takeout, rGlobal, failN, okStatus, okBody,
                   failBody, snapLog, epa_putin, epa_takeout, resp, requests, trace_ret>>
    /\ UNCHANGED pubVars
    /\ UNCHANGED cycVars

\* the loop test of get_epa_trace_response
LoopTest(n, code) == n < MaxAttempts /\ code # StatusOK

\* one pass of the while loop: the request, attempts + 1, and status_code = r.status_code,
\* which reads the kernel's r, not resp
TraceAttempt ==
    /\ pc = "c_trace"
    /\ LoopTest(attempts, status_code)
    /\ resp' = ServiceResponse(Len(requests) + 1)
    /\ requests' = Append(requests, [params |-> queryString(epa_putin, epa_takeout),
                                     status |-> resp'.status])
    /\ attempts' = attempts + 1
    /\ IF rGlobal.bound
       THEN /\ status_code' = rGlobal.status_code
            /\ UNCHANGED <<pc, outcome, trace_ret>>
       ELSE /\ Finish(Raise("NameError", "name '{}' is not defined", "r"))
            /\ trace_ret' = "raised"
            /\ UNCHANGED status_code
    /\ UNCHANGED <<variant, sdf, reach_id, putin, takeout, rGlobal, failN, okStatus, okBody,
                   failBody, snapLog, epa_putin, epa_takeout, geom_dict>>
    /\ UNCHANGED pubVars
    /\ UNCHANGED cycVars

\* the loop ends: return resp
TraceReturn ==
    /\ pc = "c_trace"
    /\ ~LoopTest(attempts, status_code)
    /\ trace_ret' = "returned"
    /\ pc' = "c_convert"
    /\ UNCHANGED <<variant, outcome, sdf, reach_id, putin, takeout, rGlobal, failN, okStatus,
                   okBody, failBody, snapLog, epa_putin, epa_takeout, attempts, status_code,
                   resp, requests, geom_dict>>
    /\ UNCHANGED pubVars
    /\ UNCHANGED cycVars

\* geom_dict['reach_line'] = epa_trace_resp_to_esri_geom(epa_trace)
Convert ==
    /\ pc = "c_convert"
    /\ LET r == epa_trace_resp_to_esri_geom(resp)
       IN IF r.raised
          THEN Finish(r.exc) /\ UNCHANGED geom_dict
          ELSE /\ geom_dict' = [geom_dict EXCEPT !.reach_line = r.geom]
               /\ Finish(Returned)
    /\ UNCHANGED <<variant, sdf, reach_id, putin, takeout, rGlobal, failN, okStatus, okBody,
                   failBody, snapLog, epa_putin, epa_takeout, attempts, status_code,
                   resp, requests, trace_ret>>
    /\ UNCHANGED pubVars
    /\ UNCHANGED cycVars

Next ==
    \/ GetPutin
    \/ GetTakeout
    \/ CheckBeforeSnap
    \/ SnapPutin
    \/ SnapTakeout
    \/ CheckSnapped
    \/ TraceAttempt
    \/ TraceReturn
    \/ Convert

Spec == Init /\ [][Next]_vars

(* --------- epa_trace_resp_to_esri_geom on every bounded response ------ *)

\* the conversion applied to any response: any status, any body within the bounds
InitGeom ==
    /\ variant = "geom"
    /\ pc = "c_convert"
    /\ sdf = <<>>
    /\ reach_id = PyInt(1)
    /\ rGlobal = Unbound
    /\ failN = 0
    /\ okStatus = 200
    /\ okBody = FlowNull
    /\ failBody = NotJson
    /\ outcome = Running
    /\ putin = NoRow
    /\ takeout = NoRow
    /\ snapLog = <<>>
    /\ epa_putin = Unset
    /\ epa_takeout = Unset
    /\ attempts = 0
    /\ status_code = 0
    /\ resp \in {[n |-> 1, status |-> s, body |-> b] : s \in OkStatuses \cup {500}, b \in AllBodies}
    /\ requests = <<>>
    /\ trace_ret = "returned"
    /\ geom_dict = [putin_point |-> "None", takeout_point |-> "None", reach_line |-> NoLine]
    /\ PubIdle
    /\ CycIdle

NextGeom == Convert

SpecGeom == InitGeom /\ [][NextGeom]_vars

(* ------------------------- publishing a reach ------------------------- *)

\* delete_features that removes only the first feature the query returned
delete_first_queried(content, rid) ==
    LET hit == {f \in content : f.reach_id = rid}
    IN IF hit = {} THEN content
       ELSE content \ {CHOOSE f \in hit : \A g \in hit : f.oid <= g.oid}

\* delete_features with a where clause that matches no feature
delete_features_no_match(content, rid) == content

\* reach_layer.delete_features(where="reach_id = '<rid>'"): what the collection holds after it
delete_features(content, rid) == {f \in content : f.reach_id # rid}

\* reach_layer.query_by_reach_id(rid): the features of the reach, by object id
RECURSIVE SortByOid(_)
SortByOid(S) ==
    IF S = {} THEN <<>>
    ELSE LET f == CHOOSE x \in S : \A y \in S : x.oid <= y.oid
         IN <<f>> \o SortByOid(S \ {f})
query_by_reach_id(content, rid) == [features |-> SortByOid({f \in content : f.reach_id = rid})]

\* ReachFeatureLayer.flush(): what the collection holds after it
flush(content) == {}

\* adding one feature: the collection gives it its next object id
AddFeature(content, oid, rid) == content \cup {Feature(oid, rid)}

\* one feature per collection
AddsPerLayer_one_each(l) == 1

\* the features one publish adds to a collection: one line, one centroid, and in
\* the point collection the put-in and the take-out
AddsPerLayer(l) == IF l = "points" THEN 2 ELSE 1

\* the workflow variables while publishing code runs
WorkflowIdle ==
    /\ variant = "none"
    /\ pc = "idle"
    /\ sdf = <<>>
    /\ reach_id = PyInt(1)
    /\ rGlobal = Unbound
    /\ failN = 0
    /\ okStatus = 200
    /\ okBody = FlowNull
    /\ failBody = NotJson
    /\ outcome = Running
    /\ putin = NoRow
    /\ takeout = NoRow
    /\ snapLog = <<>>
    /\ epa_putin = Unset
    /\ epa_takeout = Unset
    /\ attempts = 0
    /\ status_code = 0
    /\ resp = NoResp
    /\ requests = <<>>
    /\ trace_ret = "pending"
    /\ geom_dict = [putin_point |-> "None", takeout_point |-> "None", reach_line |-> NoLine]

\* reach_update(reach_id, update_feature) on reach_layer, or one publish of a reach
\* to the three collections, over collections that hold earlier features
InitPublish ==
    /\ WorkflowIdle
    /\ CycIdle
    /\ op \in {"reach_update", "flush_publish", "publish"}
    /\ ppc = IF op = "reach_update" THEN "ru_check"
             ELSE IF op = "flush_publish" THEN "fp_flush" ELSE "pub_delete"
    /\ layers \in [LayerNames -> Collections]
    /\ layers0 = layers
    /\ nextOid = [l \in LayerNames |-> 2 * MaxExisting + 1]
    /\ upReach \in ReachIds
    /\ isFeature \in BOOLEAN
    /\ (op # "reach_update" => isFeature)
    /\ fs = NoFs
    /\ cur = 1
    /\ pubLog = <<>>
    /\ pubOutcome = Running

PubFinish(exc) ==
    /\ pubOutcome' = exc
    /\ ppc' = "done"

\* the delete of one collection: it removes the reach's features, or the call fails
DeleteStep(l, next_pc) ==
    \E ok \in BOOLEAN :
        IF ok
        THEN /\ layers' = [layers EXCEPT ![l] = delete_features(layers[l], upReach)]
             /\ pubLog' = Append(pubLog, [edit |-> "delete", layer |-> l, reach_id |-> upReach,
                                          stale |-> 0])
             /\ ppc' = next_pc
             /\ UNCHANGED pubOutcome
        ELSE /\ PubFinish(Raise("RuntimeError", "delete_features failed", l))
             /\ UNCHANGED <<layers, pubLog>>

\* the insert into one collection: its new features get the next object ids
InsertEdit(l) ==
    /\ layers' = [layers EXCEPT ![l] =
           IF AddsPerLayer(l) = 2
           THEN AddFeature(AddFeature(@, nextOid[l], upReach), nextOid[l] + 1, upReach)
           ELSE AddFeature(@, nextOid[l], upReach)]
    /\ nextOid' = [nextOid EXCEPT ![l] = @ + AddsPerLayer(l)]
    /\ pubLog' = Append(pubLog,
           [edit |-> "add", layer |-> l, reach_id |-> upReach,
            stale |-> Cardinality({f \in layers[l] : f.reach_id = upReach})])

\* if not isinstance(update_feature, Feature): raise
RU_Check ==
    /\ ppc = "ru_check"
    /\ IF isFeature
       THEN ppc' = "ru_query" /\ UNCHANGED pubOutcome
       ELSE PubFinish(Raise("Exception", "update_feature does not appear to be an ArcGIS Feature object instance", ""))
    /\ UNCHANGED <<op, layers, layers0, nextOid, upReach, isFeature, fs, cur, pubLog>>
    /\ UNCHANGED wfVars
    /\ UNCHANGED cycVars

\* fs = reach_layer.query_by_reach_id(reach_id)
RU_Query ==
    /\ ppc = "ru_query"
    /\ fs' = query_by_reach_id(layers["line"], upReach)
    /\ ppc' = "ru_delete"
    /\ UNCHANGED <<op, layers, layers0, nextOid, upReach, isFeature, cur, pubLog, pubOutcome>>
    /\ UNCHANGED wfVars
    /\ UNCHANGED cycVars

\* reach_layer.delete_features(where=sql)
RU_Delete ==
    /\ ppc = "ru_delete"
    /\ DeleteStep("line", "ru_assign")
    /\ UNCHANGED <<op, layers0, nextOid, upReach, isFeature, fs, cur>>
    /\ UNCHANGED wfVars
    /\ UNCHANGED cycVars

\* fs.features[0] = update_feature: an IndexError when the query returned nothing
RU_Assign ==
    /\ ppc = "ru_assign"
    /\ IF Len(fs.features) = 0
       THEN PubFinish(Raise("IndexError", "list assignment index out of range", "")) /\ UNCHANGED fs
       ELSE /\ fs' = [features |-> [fs.features EXCEPT ![1] = Feature(0, upReach)]]
            /\ ppc' = "ru_publish"
            /\ UNCHANGED pubOutcome
    /\ UNCHANGED <<op, layers, layers0, nextOid, upReach, isFeature, cur, pubLog>>
    /\ UNCHANGED wfVars
    /\ UNCHANGED cycVars

\* reach.publish(reach_layer, ...): push the updates, or the call fails
RU_Publish ==
    /\ ppc = "ru_publish"
    /\ \E ok \in BOOLEAN :
        IF ok
        THEN InsertEdit("line") /\ PubFinish(Returned)
        ELSE /\ PubFinish(Raise("RuntimeError", "add failed", "line"))
             /\ UNCHANGED <<layers, nextOid, pubLog>>
    /\ UNCHANGED <<op, layers0, upReach, isFeature, fs, cur>>
    /\ UNCHANGED wfVars
    /\ UNCHANGED cycVars

\* reach_layer.flush(): the collection is emptied, or the call fails
FP_Flush ==
    /\ ppc = "fp_flush"
    /\ \E ok \in BOOLEAN :
        IF ok
        THEN /\ layers' = [layers EXCEPT !["line"] = flush(@)]
             /\ pubLog' = Append(pubLog, [edit |-> "flush", layer |-> "line", reach_id |-> upReach,
                                          stale |-> 0])
             /\ ppc' = "fp_publish"
             /\ UNCHANGED pubOutcome
        ELSE /\ PubFinish(Raise("RuntimeError", "flush failed", "line"))
             /\ UNCHANGED <<layers, pubLog>>
    /\ UNCHANGED <<op, layers0, nextOid, upReach, isFeature, fs, cur>>
    /\ UNCHANGED wfVars
    /\ UNCHANGED cycVars

\* reach.publish(gis, reach_layer): the recorded addResults, or the call fails
FP_Publish ==
    /\ ppc = "fp_publish"
    /\ \E ok \in BOOLEAN :
        IF ok
        THEN InsertEdit("line") /\ PubFinish(Returned)
        ELSE /\ PubFinish(Raise("RuntimeError", "add failed", "line"))
             /\ UNCHANGED <<layers, nextOid, pubLog>>
    /\ UNCHANGED <<op, layers0, upReach, isFeature, fs, cur>>
    /\ UNCHANGED wfVars
    /\ UNCHANGED cycVars

\* the publisher deletes the reach's features of the collection it is at
PubDelete ==
    /\ ppc = "pub_delete"
    /\ DeleteStep(LayerOrder[cur], "pub_insert")
    /\ UNCHANGED <<op, layers0, nextOid, upReach, isFeature, fs, cur>>
    /\ UNCHANGED wfVars
    /\ UNCHANGED cycVars

\* ... then inserts the new ones and goes on to the next collection
PubInsert ==
    /\ ppc = "pub_insert"
    /\ \E ok \in BOOLEAN :
        IF ok
        THEN /\ InsertEdit(LayerOrder[cur])
             /\ IF cur = Len(LayerOrder)
                THEN PubFinish(Returned) /\ UNCHANGED cur
                ELSE cur' = cur + 1 /\ ppc' = "pub_delete" /\ UNCHANGED pubOutcome
        ELSE /\ PubFinish(Raise("RuntimeError", "add failed", LayerOrder[cur]))
             /\ UNCHANGED <<layers, nextOid, pubLog, cur>>
    /\ UNCHANGED <<op, layers0, upReach, isFeature, fs>>
    /\ UNCHANGED wfVars
    /\ UNCHANGED cycVars

NextPublish ==
    \/ RU_Check
    \/ RU_Query
    \/ RU_Delete
    \/ RU_Assign
    \/ RU_Publish
    \/ FP_Flush
    \/ FP_Publish
    \/ PubDelete
    \/ PubInsert

SpecPublish == InitPublish /\ [][NextPublish]_vars

(* ---------------------- ReachAccessesSDF.from_csv --------------------- *)

\* the cells of the reach_id column as the CSV file has them: integers, text, blanks
RawCells == {"1", "2", "a", ""}
IsIntText(c) == c \in {"1", "2"}
FloatRepr(c) == IF c = "1" THEN "1.0" ELSE IF c = "2" THEN "2.0" ELSE "nan"
Cell(kind, repr) == [kind |-> kind, repr |-> repr]

\* the dtype read_table gives the column: int64 for integers, float64 for integers
\* with blanks, object otherwise
InferDtype(raw) ==
    IF raw # <<>> /\ \A i \in 1..Len(raw) : IsIntText(raw[i]) THEN "int64"
    ELSE IF raw # <<>> /\ \A i \in 1..Len(raw) : (IsIntText(raw[i]) \/ raw[i] = "") THEN "float64"
    ELSE "object"
\* ... and its values: ints, floats with NaN for a blank, or str with NaN for a blank
ParseCell(dtype, c) ==
    IF dtype = "int64" THEN Cell("int", c)
    ELSE IF dtype = "float64" THEN Cell("float", FloatRepr(c))
    ELSE IF c = "" THEN Cell("float", "nan") ELSE Cell("str", c)
\* df = read_table(path, ...)
read_table(columns, raw) ==
    [columns |-> columns,
     parsed |-> InferDtype(raw),
     dtype |-> InferDtype(raw),
     reach_id |-> [i \in 1..Len(raw) |-> ParseCell(InferDtype(raw), raw[i])]]

\* from_csv without the conversion
ensure_str_skipped(df) == df
\* if df[reach_id_field].dtype != object: df[reach_id_field] = df[reach_id_field].astype(str)
ensure_str(df) ==
    IF df.dtype # "object"
    THEN [df EXCEPT !.dtype = "object",
                    !.reach_id = [i \in 1..Len(df.reach_id) |-> Cell("str", df.reach_id[i].repr)]]
    ELSE df

\* a call of ReachAccessesSDF.from_csv(path): sdf holds the table read_table parsed
InitCsv ==
    /\ variant = "from_csv"
    /\ pc = "csv_check"
    /\ \E hasReach, hasGeom \in BOOLEAN :
         \E raw \in SeqsUpTo(RawCells, MaxCsvRows) :
            /\ (~hasReach => raw = <<>>)
            /\ sdf = read_table({"type"} \cup (IF hasReach THEN {"reach_id"} ELSE {})
                                         \cup (IF hasGeom THEN {"SHAPE"} ELSE {}),
                                raw)
    /\ reach_id = PyInt(1)
    /\ rGlobal = Unbound
    /\ failN = 0
    /\ okStatus = 200
    /\ okBody = FlowNull
    /\ failBody = NotJson
    /\ InitLocals

\* the tuple of the workflow variables from_csv leaves alone
csvRest == <<variant, reach_id, putin, takeout, rGlobal, failN, okStatus, okBody, failBody,
             snapLog, epa_putin, epa_takeout, attempts, status_code, resp, requests,
             trace_ret, geom_dict>>

\* check for necessary fields
FromCsvCheck ==
    /\ pc = "csv_check"
    /\ IF "reach_id" \notin sdf.columns
       THEN Finish(Raise("Exception", "input table must contain the {} field", "reach_id"))
       ELSE IF "SHAPE" \notin sdf.columns
       THEN Finish(Raise("Exception", "input table does not contain a geometry column named {}", "SHAPE"))
       ELSE pc' = "csv_astype" /\ UNCHANGED outcome
    /\ UNCHANGED sdf
    /\ UNCHANGED csvRest
    /\ UNCHANGED pubVars
    /\ UNCHANGED cycVars

\* ensure the reach_id field is a string
FromCsvAstype ==
    /\ pc = "csv_astype"
    /\ sdf' = ensure_str(sdf)
    /\ pc' = "csv_return"
    /\ UNCHANGED outcome
    /\ UNCHANGED csvRest
    /\ UNCHANGED pubVars
    /\ UNCHANGED cycVars

\* return cls(data=..., geometry=df[geometry_column].apply(... eval(value) ...)): eval
\* raises on a value that is no expression, and pd.DataFrame.__init__, which the class
\* does not override, takes no geometry argument
FromCsvReturn ==
    /\ pc = "csv_return"
    /\ \E evalOk \in BOOLEAN :
         IF evalOk
         THEN Finish(Raise("TypeError", "__init__() got an unexpected keyword argument '{}'", "geometry"))
         ELSE Finish(Raise("SyntaxError", "invalid syntax", "eval"))
    /\ UNCHANGED sdf
    /\ UNCHANGED csvRest
    /\ UNCHANGED pubVars
    /\ UNCHANGED cycVars

NextCsv ==
    \/ FromCsvCheck
    \/ FromCsvAstype
    \/ FromCsvReturn

SpecCsv == InitCsv /\ [][NextCsv]_vars

(* ------------------------- the update cycles -------------------------- *)

\* the batch cell (flush the three layers, then fetch, trace, publish and print each
\* reach of lst_reach_id) and the queue cell (take a message, then fetch, trace,
\* publish and log its reach)

\* the content of a queue message: '{"attributes": {"OBJECTID": o, "reach_id": "r"}}'
MsgContent(o, r) == <<"attributes", <<"OBJECTID", o>>, <<"reach_id", PyStr(r)>> >>
\* json.loads(msg.content)
json_loads(content) == [attributes |-> [OBJECTID |-> content[2][2], reach_id |-> content[3][2]]]
\* the same reading with the object id taken for the reach id
reach_id_from_objectid(content) == PyStr(json_loads(content).attributes.OBJECTID)
\* feature_json['attributes']['reach_id']
reach_id_from_msg(content) == json_loads(content).attributes.reach_id

ObjectIds == {15}
Messages == {[content |-> MsgContent(o, r)] : o \in ObjectIds, r \in ReachIds}

\* a handler that swallows the exception: the cell goes on with its next statement
next_statement_swallowed(raised, next_pc) == next_pc
\* a loop that hands the reach to a worker and goes on to the next reach at once
next_statement_dispatched(raised, next_pc) ==
    IF raised THEN "done" ELSE IF next_pc = "cy_snap_putin" THEN "b_for" ELSE next_pc
\* the cells have no try / except: an exception of a call ends the cell
next_statement(raised, next_pc) == IF raised THEN "done" ELSE next_pc

\* the number of the cycle that runs: the loop's pass, or the queue cell's only one
Cycle == IF op = "batch" THEN idx ELSE 1
Step(name, ok) == [cycle |-> Cycle, step |-> name, reach_id |-> upReach, ok |-> ok]

\* a call of the cycle that returns or raises
Call(name, exc, next_pc) ==
    \E ok \in BOOLEAN :
        /\ steps' = Append(steps, Step(name, ok))
        /\ ppc' = next_statement(~ok, next_pc)
        /\ pubOutcome' = IF ok THEN pubOutcome ELSE exc

InitBatch ==
    /\ WorkflowIdle
    /\ op = "batch"
    /\ ppc = "b_flush"
    /\ \E c \in Collections : layers = [l \in LayerNames |-> c]
    /\ layers0 = layers
    /\ nextOid = [l \in LayerNames |-> 2 * MaxExisting + 1]
    /\ upReach = 0
    /\ isFeature = TRUE
    /\ fs = NoFs
    /\ cur = 1
    /\ pubLog = <<>>
    /\ pubOutcome = Running
    /\ lst_reach_id \in SeqsUpTo(ReachIds, MaxBatch)
    /\ idx = 0
    /\ queue = <<>>
    /\ msg = NoMsg
    /\ steps = <<>>
    /\ printed = <<>>
    /\ editResults = <<>>

InitQueue ==
    /\ WorkflowIdle
    /\ op = "queue"
    /\ ppc = "q_get_messages"
    /\ layers \in [LayerNames -> Collections]
    /\ layers0 = layers
    /\ nextOid = [l \in LayerNames |-> 2 * MaxExisting + 1]
    /\ upReach = 0
    /\ isFeature = TRUE
    /\ fs = NoFs
    /\ cur = 1
    /\ pubLog = <<>>
    /\ pubOutcome = Running
    /\ lst_reach_id = <<>>
    /\ idx = 0
    /\ queue \in SeqsUpTo(Messages, MaxQueue)
    /\ msg = NoMsg
    /\ steps = <<>>
    /\ printed = <<>>
    /\ editResults = <<>>

InitCycle == InitBatch \/ InitQueue

\* a cell that does not flush the point layer
FlushOrder_without_points == <<"line", "centroid">>
\* the layers the batch cell flushes, in its order
FlushOrder == <<"line", "centroid", "points">>

\* lyr_reach_line.flush(), lyr_reach_centroid.flush(), lyr_reach_points.flush(): one
\* layer after the other
B_Flush ==
    /\ op = "batch"
    /\ ppc = "b_flush"
    /\ \E ok \in BOOLEAN :
        /\ ppc' = next_statement(~ok, IF cur = Len(FlushOrder) THEN "b_for" ELSE "b_flush")
        /\ IF ok
           THEN /\ layers' = [layers EXCEPT ![FlushOrder[cur]] = flush(@)]
                /\ pubLog' = Append(pubLog, [edit |-> "flush", layer |-> FlushOrder[cur],
                                             reach_id |-> upReach, stale |-> 0])
                /\ cur' = IF cur = Len(FlushOrder) THEN 1 ELSE cur + 1
                /\ UNCHANGED pubOutcome
           ELSE /\ pubOutcome' = Raise("RuntimeError", "flush failed", FlushOrder[cur])
                /\ UNCHANGED <<layers, pubLog, cur>>
    /\ UNCHANGED <<op, layers0, nextOid, upReach, isFeature, fs>>
    /\ UNCHANGED <<lst_reach_id, idx, queue, msg, steps, printed, editResults>>
    /\ UNCHANGED wfVars

\* for reach_id in lst_reach_id: the next reach id, or the end of the loop
B_For ==
    /\ op = "batch"
    /\ ppc = "b_for"
    /\ IF idx = Len(lst_reach_id)
       THEN PubFinish(Returned) /\ UNCHANGED <<idx, upReach, layers0>>
       ELSE /\ idx' = idx + 1
            /\ upReach' = lst_reach_id[idx + 1]
            /\ layers0' = layers
            /\ ppc' = "cy_get_from_aw"
            /\ UNCHANGED pubOutcome
    /\ UNCHANGED <<op, layers, nextOid, isFeature, fs, cur, pubLog>>
    /\ UNCHANGED <<lst_reach_id, queue, msg, steps, printed, editResults>>
    /\ UNCHANGED wfVars

\* get_messages that takes the message off the queue
get_messages_removing(q) ==
    [messages |-> IF q = <<>> THEN <<>> ELSE <<q[1]>>,
     left |-> IF q = <<>> THEN <<>> ELSE Tail(q)]
\* queue.get_messages(name): the first message waiting, if any; it stays in the
\* queue, and the cells never call delete_message
get_messages(q) ==
    [messages |-> IF q = <<>> THEN <<>> ELSE <<q[1]>>,
     left |-> q]

\* a read that stands in a message when the list is empty
first_or_default(messages) ==
    IF messages = <<>>
    THEN [raised |-> FALSE, exc |-> Returned, value |-> [content |-> MsgContent(15, 1)]]
    ELSE [raised |-> FALSE, exc |-> Returned, value |-> messages[1]]
\* messages[0]: an IndexError on an empty list
first(messages) ==
    IF messages = <<>>
    THEN [raised |-> TRUE, exc |-> Raise("IndexError", "list index out of range", ""), value |-> NoMsg]
    ELSE [raised |-> FALSE, exc |-> Returned, value |-> messages[1]]

\* msg = queue.get_messages(config.azure_queue_update_name)[0]
Q_GetMessages ==
    /\ op = "queue"
    /\ ppc = "q_get_messages"
    /\ LET got == get_messages(queue)
           m == first(got.messages)
       IN /\ queue' = got.left
          /\ IF m.raised
             THEN PubFinish(m.exc) /\ UNCHANGED msg
             ELSE msg' = m.value /\ ppc' = "q_reach_id" /\ UNCHANGED pubOutcome
    /\ UNCHANGED <<op, layers, layers0, nextOid, upReach, isFeature, fs, cur, pubLog>>
    /\ UNCHANGED <<lst_reach_id, idx, steps, printed, editResults>>
    /\ UNCHANGED wfVars

\* feature_json = json.loads(msg.content); reach_id = feature_json['attributes']['reach_id']
Q_ReachId ==
    /\ op = "queue"
    /\ ppc = "q_reach_id"
    /\ upReach' = reach_id_from_msg(msg.content).v
    /\ layers0' = layers
    /\ ppc' = "cy_get_from_aw"
    /\ UNCHANGED <<op, layers, nextOid, isFeature, fs, cur, pubLog, pubOutcome>>
    /\ UNCHANGED <<lst_reach_id, idx, queue, msg, steps, printed, editResults>>
    /\ UNCHANGED wfVars

\* reach = Reach.get_from_aw(reach_id)
CyGetFromAw ==
    /\ ppc = "cy_get_from_aw"
    /\ Call("get_from_aw", Raise("Exception", "get_from_aw failed", ""), "cy_snap_putin")
    /\ UNCHANGED <<op, layers, layers0, nextOid, upReach, isFeature, fs, cur, pubLog>>
    /\ UNCHANGED <<lst_reach_id, idx, queue, msg, printed, editResults>>
    /\ UNCHANGED wfVars

\* reach.update_putin_takeout_and_trace() / reach.snap_putin_and_takeout_and_trace(gis):
\* the put-in is snapped, ...
CySnapPutin ==
    /\ ppc = "cy_snap_putin"
    /\ Call("snap_putin", Raise("TraceException", "putin cannot be snapped to a hydroline", ""),
            "cy_snap_takeout")
    /\ UNCHANGED <<op, layers, layers0, nextOid, upReach, isFeature, fs, cur, pubLog>>
    /\ UNCHANGED <<lst_reach_id, idx, queue, msg, printed, editResults>>
    /\ UNCHANGED wfVars

\* ... then the take-out, ...
CySnapTakeout ==
    /\ ppc = "cy_snap_takeout"
    /\ Call("snap_takeout", Raise("TraceException", "takeout cannot be snapped to a hydroline", ""),
            "cy_trace")
    /\ UNCHANGED <<op, layers, layers0, nextOid, upReach, isFeature, fs, cur, pubLog>>
    /\ UNCHANGED <<lst_reach_id, idx, queue, msg, printed, editResults>>
    /\ UNCHANGED wfVars

\* ... then the trace between them is fetched and converted
CyTrace ==
    /\ ppc = "cy_trace"
    /\ Call("trace", Raise("Exception", "trace failed", ""), "cy_publish")
    /\ UNCHANGED <<op, layers, layers0, nextOid, upReach, isFeature, fs, cur, pubLog>>
    /\ UNCHANGED <<lst_reach_id, idx, queue, msg, printed, editResults>>
    /\ UNCHANGED wfVars

\* reach.publish(gis, lyr_reach_line, lyr_reach_centroid, lyr_reach_points) /
\* reach.publish_updates(lyr_line, lyr_centroid, lyr_points) is called
CyPublish ==
    /\ ppc = "cy_publish"
    /\ steps' = Append(steps, Step("publish", TRUE))
    /\ cur' = 1
    /\ ppc' = IF op = "queue" THEN "cy_delete" ELSE "cy_add"
    /\ UNCHANGED <<op, layers, layers0, nextOid, upReach, isFeature, fs, pubLog, pubOutcome>>
    /\ UNCHANGED <<lst_reach_id, idx, queue, msg, printed, editResults>>
    /\ UNCHANGED wfVars

\* publish_updates deletes the reach's features of the layer it is at
CyDelete ==
    /\ op = "queue"
    /\ ppc = "cy_delete"
    /\ \E ok \in BOOLEAN :
        /\ ppc' = next_statement(~ok, "cy_add")
        /\ IF ok
           THEN /\ layers' = [layers EXCEPT ![LayerOrder[cur]] = delete_features(@, upReach)]
                /\ pubLog' = Append(pubLog, [edit |-> "delete", layer |-> LayerOrder[cur],
                                             reach_id |-> upReach, stale |-> 0])
                /\ UNCHANGED pubOutcome
           ELSE /\ pubOutcome' = Raise("RuntimeError", "delete_features failed", LayerOrder[cur])
                /\ UNCHANGED <<layers, pubLog>>
    /\ UNCHANGED <<op, layers0, nextOid, upReach, isFeature, fs, cur>>
    /\ UNCHANGED <<lst_reach_id, idx, queue, msg, steps, printed, editResults>>
    /\ UNCHANGED wfVars

\* what the feature service answered to the add of one layer: the addResults
AddResult(l, success, oids) ==
    [cycle |-> Cycle, layer |-> l, reach_id |-> upReach, success |-> success, oids |-> oids]

\* the reach's features are added to the layer the publish is at: the service adds
\* them, answers 'success': False, or the call raises; the result is returned to the
\* cell, which does not look at it
CyAdd ==
    /\ ppc = "cy_add"
    /\ LET l == LayerOrder[cur]
           last == cur = Len(LayerOrder)
           next_pc == IF last THEN "cy_print" ELSE IF op = "queue" THEN "cy_delete" ELSE "cy_add"
       IN \E res \in {"success", "not_success", "raised"} :
           /\ ppc' = next_statement(res = "raised", next_pc)
           /\ cur' = IF res = "raised" THEN cur ELSE IF last THEN 1 ELSE cur + 1
           /\ pubOutcome' = IF res = "raised" THEN Raise("RuntimeError", "add failed", l)
                            ELSE pubOutcome
           /\ IF res = "success"
              THEN /\ InsertEdit(l)
                   /\ editResults' = Append(editResults,
                          AddResult(l, TRUE, nextOid[l]..(nextOid[l] + AddsPerLayer(l) - 1)))
              ELSE /\ UNCHANGED <<layers, nextOid, pubLog>>
                   /\ editResults' = IF res = "not_success"
                                     THEN Append(editResults, AddResult(l, FALSE, {}))
                                     ELSE editResults
    /\ UNCHANGED <<op, layers0, upReach, isFeature, fs>>
    /\ UNCHANGED <<lst_reach_id, idx, queue, msg, steps, printed>>
    /\ UNCHANGED wfVars

\* print('published', reach.reach_id, ...) / logging.info(f'Successfully updated {reach_id} ...')
CyPrint ==
    /\ ppc = "cy_print"
    /\ printed' = Append(printed, [cycle |-> Cycle, reach_id |-> upReach])
    /\ IF op = "batch"
       THEN ppc' = "b_for" /\ UNCHANGED pubOutcome
       ELSE PubFinish(Returned)
    /\ UNCHANGED <<op, layers, layers0, nextOid, upReach, isFeature, fs, cur, pubLog>>
    /\ UNCHANGED <<lst_reach_id, idx, queue, msg, steps, editResults>>
    /\ UNCHANGED wfVars

NextCycle ==
    \/ B_Flush
    \/ B_For
    \/ Q_GetMessages
    \/ Q_ReachId
    \/ CyGetFromAw
    \/ CySnapPutin
    \/ CySnapTakeout
    \/ CyTrace
    \/ CyPublish
    \/ CyDelete
    \/ CyAdd
    \/ CyPrint

SpecCycle == InitCycle /\ [][NextCycle]_vars

(* ============================== claims ================================ *)

TraceEnded == trace_ret # "pending"
\* the first k trace requests were all answered with a failure status
AllFailed(k) == \A i \in 1..k : ~Is2xx(requests[i].status)
BudgetExhausted == Len(requests) = MaxAttempts /\ AllFailed(MaxAttempts)
BothSnapped == epa_putin # Unset /\ epa_takeout # Unset
ZeroFlowlines(body) == body = FlowNull \/ body = FlowList(<<>>)

\* C1: when the service fails N < 10 times and then succeeds, get_epa_trace_response
\* returns that successful response after exactly N+1 requests, none after the success.
C1_RetryReturnsFirstSuccess ==
    (variant = "cell" /\ TraceEnded /\ failN < MaxAttempts) =>
        /\ trace_ret = "returned"
        /\ Len(requests) = failN + 1
        /\ resp.n = failN + 1
        /\ resp.status = okStatus

\* C2: when all 10 attempts get a failure status, get_epa_trace_response reports a
\* terminal failure and does not return a response as if the trace had succeeded.
C2_ExhaustionIsTerminalFailure ==
    (variant = "cell" /\ TraceEnded /\ BudgetExhausted) => trace_ret = "raised"

\* C3: against a service that fails every request exactly 10 requests are issued; the
\* attempt counter always equals the number of requests issued and never exceeds 10.
C3_ExactlyBudgetRequests ==
    /\ attempts = Len(requests)
    /\ attempts <= MaxAttempts
    /\ (variant = "cell" /\ TraceEnded /\ failN >= MaxAttempts) => Len(requests) = MaxAttempts

\* C4: a response with any 2xx status ends the loop as a success: it is the last
\* request issued and the call does not raise.
C4_Any2xxEndsLoop ==
    \A i \in 1..Len(requests) :
        Is2xx(requests[i].status) => (i = Len(requests) /\ trace_ret # "raised")

RECURSIVE SumLen(_)
SumLen(segs) == IF segs = <<>> THEN 0 ELSE Len(Head(segs)) + SumLen(Tail(segs))
\* the number of coordinates in the segments before the k-th
Offset(segs, k) == SumLen(SubSeq(segs, 1, k - 1))

\* C5: for a response listing one or more flowlines the result is one polyline with a
\* single path: the segments' coordinates in response order, each coordinate of each
\* segment at its place, and as long as the segments together.
C5_PathIsConcatenation ==
    (pc = "done" /\ trace_ret = "returned" /\ resp.body.kind = "flow_list" /\ resp.body.segs # <<>>) =>
        LET segs == resp.body.segs
            line == geom_dict.reach_line
        IN /\ outcome = Returned
           /\ ~line.isNone
           /\ Len(line.paths) = 1
           /\ Len(line.paths[1]) = SumLen(segs)
           /\ \A k \in 1..Len(segs) : \A j \in 1..Len(segs[k]) :
                  line.paths[1][Offset(segs, k) + j] = segs[k][j]

\* C5 witness: two non-empty segments with different coordinates were chained
C5_Witness ==
    /\ pc = "done"
    /\ resp.body = FlowList(<< <<"p", "q">>, <<"q", "p">> >>)
    /\ geom_dict.reach_line.paths = << <<"p", "q", "q", "p">> >>

\* C6: when both points snapped and the trace response reports zero traversed
\* flowlines, the reach line is None and the trace step raises no exception.
C6_EmptyTraceIsNone ==
    (variant = "cell" /\ pc = "done" /\ BothSnapped /\ failN < MaxAttempts /\ ZeroFlowlines(okBody)) =>
        /\ outcome = Returned
        /\ geom_dict.reach_line.isNone

\* C7: the trace step yields None only for a successful response that reports no
\* traversed flowlines, and an exhausted retry budget never ends as None or as a line.
C7_NoPathDistinctFromError ==
    (variant = "cell" /\ pc = "done" /\ outcome = Returned) =>
        /\ geom_dict.reach_line.isNone => (Is2xx(resp.status) /\ ZeroFlowlines(resp.body))
        /\ ~BudgetExhausted

\* C8: when the snapping service has no candidate flowline for the put-in or the
\* take-out, the workflow ends with that point's 'cannot be snapped to a hydroline'
\* TraceException and issues no trace request.
C8_NoCandidateRaisesTraceException ==
    \A i \in 1..Len(snapLog) :
        (pc = "done" /\ snapLog[i].rjson.shape # "found") =>
            /\ outcome.type = "TraceException"
            /\ outcome.msg = IF snapLog[i].point = "putin"
                             THEN "putin cannot be snapped to a hydroline"
                             ELSE "takeout cannot be snapped to a hydroline"
            /\ requests = <<>>

\* rows of the table for the reach, whatever the dtype of the column and the argument
CountAccess(t) == Cardinality({i \in 1..Len(sdf) : sdf[i].reach_id.v = reach_id.v /\ sdf[i].type = t})
ExactlyOneEach == CountAccess("putin") = 1 /\ CountAccess("takeout") = 1

\* C9: get_geometries_from_sdf_by_reach_id gets past the access lookups, and issues
\* snap or trace requests, only with exactly one put-in and one take-out for the reach;
\* otherwise it ends with a TraceException and no request was made.
C9_RequestsOnlyWithOnePutinOneTakeout ==
    variant = "function" =>
        /\ (snapLog # <<>> \/ requests # <<>> \/ pc = "f_check" \/ outcome.type = "UnboundLocalError")
              => ExactlyOneEach
        /\ (pc = "done" /\ ~ExactlyOneEach) =>
              (outcome.type = "TraceException" /\ snapLog = <<>> /\ requests = <<>>)

\* C9 witness: two put-ins for the reach made the lookup raise
C9_Witness ==
    /\ variant = "function"
    /\ pc = "done"
    /\ CountAccess("putin") = 2
    /\ outcome = Raise("TraceException", "more than one {} exists", "putin")
    /\ snapLog = <<>>
    /\ requests = <<>>

\* the collections the running publishing code writes
Written == IF op = "publish" THEN LayerNames ELSE {"line"}

CycleEdits(c) == {i \in 1..Len(editResults) : editResults[i].cycle = c}
Cycles == {steps[i].cycle : i \in 1..Len(steps)}
Printed(c) == \E i \in 1..Len(printed) : printed[i].cycle = c
AllWritesSucceeded(c) ==
    /\ Cardinality(CycleEdits(c)) = Len(LayerOrder)
    /\ \A i \in CycleEdits(c) : editResults[i].success
\* in cycle c the write to one collection succeeded and the write to a later one
\* failed, by its result or by an exception
PartialPublish(c) ==
    \E j \in CycleEdits(c) :
        /\ editResults[j].success
        /\ \/ \E k \in CycleEdits(c) : j < k /\ ~editResults[k].success
           \/ Cycle = c /\ pubOutcome.type = "RuntimeError" /\ pubOutcome.msg = "add failed"
CountOf(content, rid) == Cardinality({f \in content : f.reach_id = rid})

\* C11: publishing the same reach twice in succession leaves every collection with the
\* same records per reach id as publishing it once (layers0 is the state after the
\* first of the two publishes).
C11_PublishTwiceAsOnce ==
    (/\ op = "batch" /\ idx >= 2 /\ lst_reach_id[idx] = lst_reach_id[idx - 1]
     /\ Printed(idx) /\ AllWritesSucceeded(idx) /\ AllWritesSucceeded(idx - 1)) =>
        \A l \in LayerNames : \A r \in ReachIds : CountOf(layers[l], r) = CountOf(layers0[l], r)

\* C12: when within one publish the write to one collection succeeds and the write to a
\* later one fails, the cell ends with an error and the reach is not printed / logged
\* as published.
C12_PartialPublishIsReported ==
    \A c \in Cycles :
        PartialPublish(c) =>
            /\ ~Printed(c)
            /\ (ppc = "done" => pubOutcome # Returned)

\* C13: in the batch loop a failure for one reach id aborts only that reach id: when the
\* cell has ended, every reach id of the list was processed.
C13_BatchContinuesAfterFailure ==
    (op = "batch" /\ ppc = "done" /\ steps # <<>>) =>
        \A k \in 1..Len(lst_reach_id) :
            \E i \in 1..Len(steps) : steps[i].cycle = k /\ steps[i].step = "get_from_aw"

StepOrder == <<"get_from_aw", "snap_putin", "snap_takeout", "trace", "publish">>
CycleSteps(c) ==
    LET InCycle(e) == e.cycle = c
    IN SelectSeq(steps, InCycle)

\* C14: the steps of one reach run in the order fetch, snap put-in, snap take-out,
\* trace, publish, each only after the one before it returned; a collection is written
\* only after publish was called for the reach, and when a step before publish raises
\* the cell ends with that exception and every collection is as the cycle found it.
C14_SnapTracePublishInOrder ==
    /\ \A c \in Cycles :
         LET cs == CycleSteps(c)
         IN /\ Len(cs) <= Len(StepOrder)
            /\ \A i \in 1..Len(cs) : cs[i].step = StepOrder[i]
            /\ \A i \in 1..(Len(cs) - 1) : cs[i].ok
    /\ \A j \in 1..Len(editResults) :
         \E i \in 1..Len(steps) :
            steps[i].cycle = editResults[j].cycle /\ steps[i].step = "publish"
    /\ (steps # <<>> /\ steps[Len(steps)].step # "publish") => layers = layers0
    /\ (steps # <<>> /\ ~steps[Len(steps)].ok) =>
         /\ ppc = "done"
         /\ pubOutcome.type \notin {"running", "returned"}
         /\ layers = layers0

\* C14 witness: the trace of the second reach of a batch raised after the first reach
\* was published
C14_Witness ==
    /\ op = "batch"
    /\ Len(printed) = 1
    /\ steps # <<>>
    /\ steps[Len(steps)] = [cycle |-> 2, step |-> "trace", reach_id |-> upReach, ok |-> FALSE]
    /\ ppc = "done"

\* C15: the queue cell takes one message, the first waiting, reads the reach id from
\* attributes.reach_id of its payload and runs each step of the cycle at most once, all
\* for that reach id; when it returns it has run exactly one whole cycle.
C15_OneMessageOneCycle ==
    (op = "queue" /\ (steps # <<>> \/ upReach # 0)) =>
        /\ queue # <<>>
        /\ msg = queue[1]
        /\ \E o \in ObjectIds : msg.content = MsgContent(o, upReach)
        /\ \A i \in 1..Len(steps) : steps[i].reach_id = upReach /\ steps[i].cycle = 1
        /\ \A i, j \in 1..Len(steps) : steps[i].step = steps[j].step => i = j
        /\ \A i \in 1..Len(editResults) : editResults[i].reach_id = upReach
        /\ (ppc = "done" /\ pubOutcome = Returned) =>
              /\ Len(steps) = Len(StepOrder)
              /\ printed = <<[cycle |-> 1, reach_id |-> upReach]>>

\* C15 witness: with two messages for different reaches waiting, the cell ran the cycle
\* of the first
C15_Witness ==
    /\ op = "queue"
    /\ Len(queue) = 2
    /\ queue[1] # queue[2]
    /\ ppc = "done"
    /\ pubOutcome = Returned
    /\ printed = <<[cycle |-> 1, reach_id |-> 2]>>

Successful(c) == Printed(c) /\ AllWritesSucceeded(c)
\* the object ids of the records cycle c added to collection l
Upserted(c, l) == UNION {editResults[i].oids : i \in {j \in CycleEdits(c) : editResults[j].layer = l}}
ReachOf(c) == (CHOOSE i \in 1..Len(printed) : printed[i].cycle = c)

SnapResult(i) == IF snapLog[i].point = "putin" THEN epa_putin ELSE epa_takeout

\* C17: no failed remote call is handed on as a normal result: a snapping response with
\* a failure status yields no snap result, and get_epa_trace_response returns no
\* response with a failure status.
C17_NoFailureHandedOn ==
    /\ \A i \in 1..Len(snapLog) : ~Is2xx(snapLog[i].rjson.status) => SnapResult(i) = Unset
    /\ trace_ret = "returned" => Is2xx(resp.status)

\* C18: every attempt of one get_epa_trace_response call sends the same request:
\* navigation type PP, start id and measure of the put-in's snap (the first candidate
\* of the first snapping response), stop id and measure of the take-out's.
C18_SameRequestEveryAttempt ==
    (variant = "cell" /\ requests # <<>>) =>
        /\ Len(snapLog) = 2
        /\ snapLog[1].point = "putin"
        /\ snapLog[2].point = "takeout"
        /\ \A i \in 1..Len(requests) :
             /\ requests[i].params.pNavigationType = "PP"
             /\ requests[i].params.pStartComID = snapLog[1].rjson.ary_flowlines[1].comid
             /\ requests[i].params.pStartMeasure = snapLog[1].rjson.ary_flowlines[1].fmeasure
             /\ requests[i].params.pStopComid = snapLog[2].rjson.ary_flowlines[1].comid
             /\ requests[i].params.pStopMeasure = snapLog[2].rjson.ary_flowlines[1].fmeasure
             /\ requests[i].params = requests[1].params

\* C18 witness: ten attempts were made between two different flowlines
C18_Witness ==
    /\ Len(requests) = MaxAttempts
    /\ epa_putin.id # epa_takeout.id

Continuous(segs) ==
    /\ \A k \in 1..Len(segs) : segs[k] # <<>>
    /\ \A k \in 1..(Len(segs) - 1) : segs[k][Len(segs[k])] = segs[k + 1][1]

C21_OneReachAtATime ==
    /\ \A i, j \in 1..Len(steps) : i < j => steps[i].cycle <= steps[j].cycle
    /\ \A i, j \in 1..Len(editResults) : i < j => editResults[i].cycle <= editResults[j].cycle
    /\ \A c \in Cycles : c >= 2 => Printed(c - 1)
    /\ Cardinality({c \in Cycles : ~Printed(c)}) <= 1
    /\ op = "queue" => Cycles \subseteq {1}

\* C21 witness: the third reach of a batch is in its cycle after two were published
C21_Witness ==
    /\ op = "batch"
    /\ Len(printed) = 2
    /\ Cycles = {1, 2, 3}
    /\ ppc = "cy_trace"

\* C22: the line collection and the centroid collection each hold at most one record
\* per reach id after any sequence of publishes.
C22_AtMostOneRecordPerReach ==
    (op = "batch" /\ steps # <<>>) =>
        \A r \in ReachIds :
            /\ CountOf(layers["line"], r) <= 1
            /\ CountOf(layers["centroid"], r) <= 1

\* C23: after every request of get_epa_trace_response the loop's status_code is the
\* status of the response just received, and that response is the one of the last
\* request issued.
C23_StatusOfResponseJustReceived ==
    (variant = "cell" /\ requests # <<>>) =>
        /\ status_code = resp.status
        /\ resp.n = Len(requests)

\* the table's reach_id column holds strings
StrTable == \A i \in 1..Len(sdf) : sdf[i].reach_id.kind = "str"

\* C24: for a reach with exactly one put-in and one take-out that snap and trace,
\* get_geometries_from_sdf_by_reach_id returns a dict with the points set, after both
\* snap calls were made.
C24_FunctionSnapsThenReturns ==
    (variant = "function" /\ pc = "done" /\ ExactlyOneEach /\ StrTable) =>
        /\ outcome = Returned
        /\ Len(snapLog) = 2
        /\ geom_dict.putin_point # "None"
        /\ geom_dict.takeout_point # "None"

\* C25: the upsert is not atomic: once the delete (or flush) of a collection succeeded
\* and no insert followed it, the collection holds no record of the reach, whether the
\* insert failed or the code stopped in between; nothing restores the deleted records.
C25_DeletedRecordNotRestored ==
    \A i \in 1..Len(pubLog) :
        (/\ pubLog[i].edit \in {"delete", "flush"}
         /\ ~\E j \in (i + 1)..Len(pubLog) :
                pubLog[j].edit = "add" /\ pubLog[j].layer = pubLog[i].layer) =>
            CountOf(layers[pubLog[i].layer], upReach) = 0

\* C25 witness: reach_update deleted the reach's line records and its publish failed
C25_Witness ==
    /\ op = "reach_update"
    /\ ppc = "done"
    /\ pubOutcome = Raise("RuntimeError", "add failed", "line")
    /\ CountOf(layers0["line"], upReach) >= 1
    /\ CountOf(layers["line"], upReach) = 0

C27_MessageStaysInQueue ==
    [][/\ queue' = queue
       /\ msg' # NoMsg => (queue' # <<>> /\ queue'[1] = msg')]_vars

\* C27 witness: the cycle of a message raised and the message is still in the queue
C27_Witness ==
    /\ op = "queue"
    /\ ppc = "done"
    /\ pubOutcome.type = "RuntimeError"
    /\ Len(queue) = 2
    /\ queue[1] = msg
    /\ queue[2] # msg

\* C28: with no message in the queue the queue cell stops at the read with an
\* IndexError and runs no step of the cycle: no fetch, no trace, no write.
C28_EmptyQueueStopsAtRead ==
    (op = "queue" /\ queue = <<>>) =>
        /\ ppc \in {"q_get_messages", "done"}
        /\ ppc = "done" => pubOutcome.type = "IndexError"
        /\ msg = NoMsg
        /\ steps = <<>>
        /\ editResults = <<>>
        /\ pubLog = <<>>
        /\ layers = layers0

\* C28 witness: the read of an empty queue raised
C28_Witness ==
    /\ op = "queue"
    /\ queue = <<>>
    /\ ppc = "done"
    /\ pubOutcome = Raise("IndexError", "list index out of range", "")

\* C29: _get_access_from_sdf gives the same outcome for an integer reach id as for its
\* string form, and never raises the 'reach_id must be a string' TraceException.
C29_IntAndStrReachIdAgree ==
    variant = "function" =>
        /\ \A t \in AccessTypes : \A n \in ReachIds :
             /\ get_access_from_sdf(sdf, PyInt(n), t) = get_access_from_sdf(sdf, PyStr(n), t)
             /\ get_access_from_sdf(sdf, PyInt(n), t).exc.msg
                   # "reach_id must be a string representation of an integer"
        /\ outcome.msg # "reach_id must be a string representation of an integer"

\* C29 witness: both lookups found their row for an integer reach id
C29_Witness ==
    /\ variant = "function"
    /\ reach_id.kind = "int"
    /\ pc = "f_check"
    /\ putin.type = "putin"
    /\ takeout.type = "takeout"

AllStr(cells) == \A i \in 1..Len(cells) : cells[i].kind = "str"
LacksColumn == "reach_id" \notin sdf.columns \/ "SHAPE" \notin sdf.columns

====
